---------------------------- MODULE Spec2Model ----------------------------
(***************************************************************************)
(* The Polars tutorial notebook "EF01 - Polars Tutorial.ipynb" as a state  *)
(* machine.  The state is what a Jupyter kernel session holds while the    *)
(* notebook's code cells execute: the interactive namespace, the files on  *)
(* disk, the last cell's result, the queue of cells still to run and the   *)
(* kind of session: "batch" executes the notebook top to bottom and stops  *)
(* at the first exception, "interactive" executes one cell at a time, any  *)
(* cell, as often as asked.                                                *)
(*                                                                         *)
(* The dataframe calls are written out as operators on frames, following   *)
(* the documented behaviour of the Polars calls the cells make, with the   *)
(* arguments the cells pass.  Where Polars leaves the row order            *)
(* unspecified (group_by, unique and sort without maintain_order) the      *)
(* operator yields the set of all admissible results.  Float64 columns are *)
(* computed in binary64: every addition, multiplication and division       *)
(* rounds to nearest, ties to even, and sums are taken left to right in    *)
(* row order.  How rolling_mean keeps the sum of its moving window is a    *)
(* property of the installed Polars build, fixed when polars is imported.  *)
(*                                                                         *)
(* Data conventions                                                        *)
(*   Date          an integer, hours since the epoch, so that              *)
(*                 .dt.hour() is t % 24 and .dt.date() is t \div 24        *)
(*   Float64 value Null (the empty tuple) or a finite binary64 number      *)
(*                 <<s, m, e>> of value s * m * 2^e: the sign s is 1 or    *)
(*                 -1, m is an odd natural below 2^53 and e an integer;    *)
(*                 zero is <<0, << >>, 0>>.  A natural is the sequence of  *)
(*                 its digits to the base Base, lowest first.  No value of *)
(*                 the model is subnormal, infinite or NaN, and zero       *)
(*                 carries no sign.                                        *)
(*   String value  a string of Lexicon, which lists them in sort order     *)
(*   frame         [schema |-> <<<<name, dtype>>, ...>>, rows |-> <<..>>], *)
(*                 each row a function from column name to value           *)
(* The key columns Date and Primary Source are fully populated in every    *)
(* input; the measure column may hold nulls.                               *)
(***************************************************************************)
EXTENDS Integers, Sequences, FiniteSets, TLC

VARIABLES ns, fs, out, queue, session

vars == <<ns, fs, out, queue, session>>

(***************************************************************************)
(* Bounds of the model.                                                    *)
(***************************************************************************)
\* rows of an exhaustively enumerated input sheet
MaxRows == 2
\* distinct timestamps of the longest hourly series
MaxSeries == 26
\* rows of the longest table whose row orders are all tried by a property
MaxPermuted == 4

(***************************************************************************)
(* Literals the cells pass to the library.                                 *)
(***************************************************************************)
DateCol == "Date"
GenCol == "Actual Generation (GWh)"
SourceCol == "Primary Source"
DataPath == "../data/power_generation.xlsx"
CsvPath == "output.csv"
XlsxPath == "output.xlsx"
ParquetPath == "output.parquet"
MWhFactor == 1000
GenThreshold == 10
WindowSize == 24
HeadRows == 5
HoursPerDay == 24

(***************************************************************************)
(* Values.                                                                 *)
(***************************************************************************)
Null == << >>
IsNull(x) == x = Null

\* Naturals of any size, as sequences of digits to the base Base.
Base == 2^15

RECURSIVE Bits(_)
\* the number of binary digits of the integer n >= 0
Bits(n) == IF n = 0 THEN 0 ELSE 1 + Bits(n \div 2)

LimbBits == Bits(Base) - 1

RECURSIVE NatOf(_)
NatOf(n) == IF n = 0 THEN << >> ELSE <<n % Base>> \o NatOf(n \div Base)

RECURSIVE Trim(_)
Trim(a) == IF a = << >> \/ a[Len(a)] # 0 THEN a ELSE Trim(SubSeq(a, 1, Len(a) - 1))

Limb(a, i) == IF i <= Len(a) THEN a[i] ELSE 0

RECURSIVE AddFrom(_, _, _, _)
AddFrom(a, b, i, c) ==
    IF i > Len(a) /\ i > Len(b) THEN NatOf(c)
    ELSE LET s == Limb(a, i) + Limb(b, i) + c
         IN  <<s % Base>> \o AddFrom(a, b, i + 1, s \div Base)

\* a + b
NatPlus(a, b) == AddFrom(a, b, 1, 0)

RECURSIVE SubFrom(_, _, _, _)
SubFrom(a, b, i, c) ==
    IF i > Len(a) THEN << >>
    ELSE LET s == a[i] - Limb(b, i) - c
         IN  <<(s + Base) % Base>> \o SubFrom(a, b, i + 1, IF s < 0 THEN 1 ELSE 0)

\* a - b, for a >= b
NatMinus(a, b) == Trim(SubFrom(a, b, 1, 0))

RECURSIVE CmpFrom(_, _, _)
CmpFrom(a, b, i) ==
    IF i = 0 THEN 0
    ELSE IF a[i] # b[i] THEN (IF a[i] < b[i] THEN -1 ELSE 1)
    ELSE CmpFrom(a, b, i - 1)

\* -1, 0 or 1 as a < b, a = b or a > b
NatCmp(a, b) ==
    IF Len(a) # Len(b) THEN (IF Len(a) < Len(b) THEN -1 ELSE 1)
    ELSE CmpFrom(a, b, Len(a))

RECURSIVE MulFrom(_, _, _, _)
MulFrom(a, k, i, c) ==
    IF i > Len(a) THEN NatOf(c)
    ELSE LET s == a[i] * k + c
         IN  <<s % Base>> \o MulFrom(a, k, i + 1, s \div Base)

\* a * k, for an integer 0 <= k <= Base
NatTimes(a, k) == IF k = 0 THEN << >> ELSE MulFrom(a, k, 1, 0)

RECURSIVE DivFrom(_, _, _, _)
DivFrom(a, n, i, r) ==
    IF i = 0 THEN << << >>, r >>
    ELSE LET s == r * Base + a[i]
             low == DivFrom(a, n, i - 1, s % n)
         IN  <<low[1] \o <<s \div n>>, low[2]>>

\* <<a \div n, a % n>>, for an integer 0 < n < Base
NatDivMod(a, n) == LET d == DivFrom(a, n, Len(a), 0) IN <<Trim(d[1]), d[2]>>

\* a * 2^d
ShiftLeft(a, d) ==
    IF a = << >> THEN << >>
    ELSE [i \in 1..(d \div LimbBits) |-> 0] \o NatTimes(a, 2^(d % LimbBits))

\* a \div 2^d
ShiftRight(a, d) ==
    IF d \div LimbBits >= Len(a) THEN << >>
    ELSE NatDivMod(SubSeq(a, (d \div LimbBits) + 1, Len(a)), 2^(d % LimbBits))[1]

\* the number of binary digits of a
BitLength(a) == IF a = << >> THEN 0 ELSE LimbBits * (Len(a) - 1) + Bits(a[Len(a)])

RECURSIVE LowZeros(_)
LowZeros(n) == IF n % 2 = 1 THEN 0 ELSE 1 + LowZeros(n \div 2)

RECURSIVE TrailingZeros(_)
\* the number of binary zeros a # 0 ends in
TrailingZeros(a) ==
    IF a[1] # 0 THEN LowZeros(a[1]) ELSE LimbBits + TrailingZeros(Tail(a))

\* Float64: the significand of a binary64 number has 53 binary digits.
Precision == 53

Zero == <<0, << >>, 0>>

\* s * m * 2^e with the factors 2 of m moved into the exponent
Dyadic(s, m, e) ==
    IF m = << >> THEN Zero
    ELSE LET z == TrailingZeros(m) IN <<s, ShiftRight(m, z), e + z>>

\* the binary64 number nearest to s * m * 2^e, the one with the even
\* significand if two are equally near
Round(s, m, e) ==
    LET k == BitLength(m) - Precision
    IN  IF k <= 0 THEN Dyadic(s, m, e)
        ELSE LET q == ShiftRight(m, k)
                 c == NatCmp(NatMinus(m, ShiftLeft(q, k)), ShiftLeft(<<1>>, k - 1))
                 up == c > 0 \/ (c = 0 /\ q[1] % 2 = 1)
             IN  Dyadic(s, IF up THEN NatPlus(q, <<1>>) ELSE q, e + k)

\* the integer v as a Float64
Num(v) ==
    IF v = 0 THEN Zero
    ELSE IF v < 0 THEN Dyadic(-1, NatOf(-v), 0) ELSE Dyadic(1, NatOf(v), 0)

Neg(a) == <<-a[1], a[2], a[3]>>

\* a + b as a real number, nothing rounded: <<s, m, e>> with m of any size
Sum(a, b) ==
    IF a[1] = 0 THEN b
    ELSE IF b[1] = 0 THEN a
    ELSE LET e == IF a[3] < b[3] THEN a[3] ELSE b[3]
             p == ShiftLeft(a[2], a[3] - e)
             q == ShiftLeft(b[2], b[3] - e)
             c == NatCmp(p, q)
         IN  IF a[1] = b[1] THEN <<a[1], NatPlus(p, q), e>>
             ELSE IF c = 0 THEN Zero
             ELSE IF c > 0 THEN <<a[1], NatMinus(p, q), e>>
             ELSE <<b[1], NatMinus(q, p), e>>

\* a + b in Float64
Plus(a, b) == LET r == Sum(a, b) IN Round(r[1], r[2], r[3])

\* a / n in Float64, for an integer 0 < n < Base: the quotient is cut off
\* below the digits that decide the rounding, with a last digit that tells
\* whether anything was cut off
Over(a, n) ==
    IF a[1] = 0 THEN Zero
    ELSE LET s == Precision + 3 + Bits(n)
             d == NatDivMod(ShiftLeft(a[2], s), n)
             q == NatPlus(NatTimes(d[1], 2), IF d[2] = 0 THEN << >> ELSE <<1>>)
         IN  Round(a[1], q, a[3] - s - 1)

\* the Float64 a spreadsheet cell with the decimal n / 10^k is read as
Decimal(n, k) == Over(Num(n), 10^k)

RECURSIVE Total(_)
\* the sum of a sequence of non-null values, added one by one from the first
\* to the last; 0 for the empty one
Total(s) ==
    IF s = << >> THEN Zero ELSE Plus(Total(SubSeq(s, 1, Len(s) - 1)), s[Len(s)])

\* a < b on non-null values
NumLess(a, b) == Sum(a, Neg(b))[1] < 0

\* The strings of the model in lexicographic order, the order sort() and min()
\* put strings in: the timestamps 0, 1, 24 and 25 as text, then the sources.
Lexicon ==
    <<"1970-01-01 00:00", "1970-01-01 01:00", "1970-01-02 00:00",
      "1970-01-02 01:00", "Hydro", "Thermal">>
StrRank(s) == CHOOSE i \in DOMAIN Lexicon : Lexicon[i] = s
StrLess(a, b) == StrRank(a) < StrRank(b)

\* Whether x sorts before y in a column of this dtype.  Nulls sort first in
\* either direction (nulls_last=False).
ValueBefore(dtype, x, y, descending) ==
    CASE dtype = "Float64" ->
            \/ IsNull(x) /\ ~IsNull(y)
            \/ /\ ~IsNull(x) /\ ~IsNull(y)
               /\ IF descending THEN NumLess(y, x) ELSE NumLess(x, y)
      [] dtype = "String" -> IF descending THEN StrLess(y, x) ELSE StrLess(x, y)
      [] OTHER -> IF descending THEN y < x ELSE x < y

(***************************************************************************)
(* Sequences.                                                              *)
(***************************************************************************)
Range(s) == {s[i] : i \in DOMAIN s}

Reverse(s) == [i \in 1..Len(s) |-> s[Len(s) + 1 - i]]

\* the elements of s at the indices in idx, in index order
AtIndices(s, idx) ==
    LET at == SelectSeq([i \in DOMAIN s |-> i], LAMBDA i : i \in idx)
    IN  [k \in DOMAIN at |-> s[at[k]]]

\* s without repeated elements, each kept where it first appears
FirstAppearance(s) ==
    AtIndices(s, {i \in DOMAIN s : \A j \in 1..(i - 1) : s[j] # s[i]})

\* every order of the elements of s: the orders an operation without
\* maintain_order may return its rows in
Orderings(s) ==
    LET n == Len(s)
        bij == {p \in [1..n -> 1..n] : \A i, j \in 1..n : p[i] = p[j] => i = j}
    IN  {[i \in 1..n |-> s[p[i]]] : p \in bij}

(***************************************************************************)
(* Frames.                                                                 *)
(***************************************************************************)
Frame(schema, rows) == [schema |-> schema, rows |-> rows]

\* DataFrame.columns
Columns(f) == [i \in DOMAIN f.schema |-> f.schema[i][1]]

\* DataFrame.dtypes
Dtypes(f) == [i \in DOMAIN f.schema |-> f.schema[i][2]]

DtypeOf(f, c) == f.schema[CHOOSE i \in DOMAIN f.schema : f.schema[i][1] = c][2]

\* the values of column c, row by row
ColumnOf(rows, c) == [i \in DOMAIN rows |-> rows[i][c]]

\* the values of the key columns of a row
KeyOf(row, keys) == [i \in DOMAIN keys |-> row[keys[i]]]

\* DataFrame.head(n)
HeadFrame(f, n) ==
    Frame(f.schema, SubSeq(f.rows, 1, IF Len(f.rows) < n THEN Len(f.rows) ELSE n))

\* DataFrame.select(pl.col(c).alias(a), ...): picks is <<<<column, alias>>, ...>>
SelectAs(f, picks) ==
    LET from(a) == picks[CHOOSE i \in DOMAIN picks : picks[i][2] = a][1]
    IN  Frame([i \in DOMAIN picks |-> <<picks[i][2], DtypeOf(f, picks[i][1])>>],
              [k \in DOMAIN f.rows |->
                  [a \in {picks[i][2] : i \in DOMAIN picks} |-> f.rows[k][from(a)]]])

\* DataFrame.select of columns under their own names
SelectColumns(f, names) == SelectAs(f, [i \in DOMAIN names |-> <<names[i], names[i]>>])

\* DataFrame.rename(mapping): columns keep their place and their values
RenameColumns(f, mapping) ==
    LET new(c) == IF c \in DOMAIN mapping THEN mapping[c] ELSE c
    IN  SelectAs(f, [i \in DOMAIN f.schema |-> <<f.schema[i][1], new(f.schema[i][1])>>])

\* DataFrame.with_columns(expr.alias(name)), vals being the expression's value
\* for each row: a new column goes last, an existing one is replaced in place
WithColumn(f, name, dtype, vals) ==
    Frame(IF name \in Range(Columns(f))
            THEN [i \in DOMAIN f.schema |->
                    IF f.schema[i][1] = name THEN <<name, dtype>> ELSE f.schema[i]]
            ELSE Append(f.schema, <<name, dtype>>),
          [k \in DOMAIN f.rows |-> (name :> vals[k]) @@ f.rows[k]])

\* DataFrame.filter(predicate), mask being the predicate's value for each row:
\* the rows where it is true, in order
Filter(f, mask) == Frame(f.schema, AtIndices(f.rows, {k \in DOMAIN f.rows : mask[k]}))

\* a faulty comparison that looks at the first sort column only
FirstKeyBefore(f, by, descending, a, b) ==
    ValueBefore(DtypeOf(f, by[1]), a[by[1]], b[by[1]], descending)

\* whether row a sorts before row b by the columns `by`
RowBefore(f, by, descending, a, b) ==
    \E i \in DOMAIN by :
        /\ \A j \in 1..(i - 1) : a[by[j]] = b[by[j]]
        /\ ValueBefore(DtypeOf(f, by[i]), a[by[i]], b[by[i]], descending)

\* rows in the order `by` puts them in, equal rows keeping their order: row i
\* goes to position pos[i], after the rows that sort before it and the equal
\* rows that precede it (pos is a tuple, so that it is computed once)
StableSort(f, rows, by, descending) ==
    LET pos == [i \in DOMAIN rows |->
                   1 + Cardinality({j \in DOMAIN rows :
                        \/ RowBefore(f, by, descending, rows[j], rows[i])
                        \/ /\ ~RowBefore(f, by, descending, rows[i], rows[j])
                           /\ j < i})] \o << >>
    IN  [p \in 1..Len(rows) |-> rows[CHOOSE i \in DOMAIN rows : pos[i] = p]]

\* The orders of sorted rows that keep them sorted: the rows tied with the first
\* row, in every order, followed by the same for the rows after them.
RECURSIVE TieOrders(_, _, _, _)
TieOrders(f, sorted, by, descending) ==
    IF sorted = << >> THEN {<< >>}
    ELSE LET n == Cardinality({j \in DOMAIN sorted :
                      ~RowBefore(f, by, descending, sorted[1], sorted[j])})
         IN  {tied \o rest :
                 tied \in Orderings(SubSeq(sorted, 1, n)),
                 rest \in TieOrders(f, SubSeq(sorted, n + 1, Len(sorted)),
                                    by, descending)}

\* DataFrame.sort(by, descending=..., maintain_order=False): the rows in the
\* order of `by`, rows that are equal on `by` in any order.  The outcomes are
\* the same for every order of the rows of f.
SortOutcomes(f, by, descending) ==
    {Frame(f.schema, rows) :
        rows \in TieOrders(f, StableSort(f, f.rows, by, descending), by, descending)}

(***************************************************************************)
(* Expressions.                                                            *)
(***************************************************************************)
\* pl.col("Date").dt.hour()
DtHour(t) == t % HoursPerDay

\* pl.col("Date").dt.date()
DtDate(t) == t \div HoursPerDay

\* pl.col(...) * k in Float64, for an integer 0 < k <= Base: null stays null
Times(x, k) == IF IsNull(x) THEN Null ELSE Round(x[1], NatTimes(x[2], k), x[3])

\* pl.col(...) > k: null compares to null, which filter() drops
GreaterThan(x, k) == ~IsNull(x) /\ NumLess(Num(k), x)

NonNull(vals) == AtIndices(vals, {i \in DOMAIN vals : ~IsNull(vals[i])})

\* a faulty sum that keeps the first value of the group and drops the rest
FirstValue(vals) ==
    LET nn == NonNull(vals) IN IF nn = << >> THEN Zero ELSE nn[1]

\* Expr.sum(): nulls are skipped, the values are added in row order, and the
\* sum of no values is 0
AggSum(vals) == Total(NonNull(vals))

\* a faulty mean that counts a null as a reading of 0
MeanNullAsZero(vals) ==
    LET nn == NonNull(vals)
    IN  IF vals = << >> THEN Null
        ELSE Over(Total(nn), Len(vals))

\* Expr.mean(): nulls are skipped, the sum is divided by the number of values,
\* and the mean of no values is null
AggMean(vals) ==
    LET nn == NonNull(vals)
    IN  IF nn = << >> THEN Null
        ELSE Over(Total(nn), Len(nn))

\* Expr.count(): the number of non-null values
AggCount(vals) == Len(NonNull(vals))

\* Expr.max(): nulls are skipped, and the max of no values is null
AggMax(vals) ==
    LET nn == NonNull(vals)
    IN  IF nn = << >> THEN Null
        ELSE CHOOSE m \in Range(nn) : \A v \in Range(nn) : ~NumLess(m, v)

\* Expr.min(): nulls are skipped, and the min of no values is null
AggMin(vals) ==
    LET nn == NonNull(vals)
    IN  IF nn = << >> THEN Null
        ELSE CHOOSE m \in Range(nn) : \A v \in Range(nn) : ~NumLess(v, m)

Aggregate(op, vals) ==
    CASE op = "sum" -> AggSum(vals)
      [] op = "mean" -> AggMean(vals)
      [] op = "count" -> AggCount(vals)
      [] op = "max" -> AggMax(vals)

\* The ways a build of Polars keeps the sum of the moving window: "fresh" adds
\* up every window on its own; "running" keeps one sum, subtracts the value
\* that leaves the window and adds the one that enters; "compensated" does the
\* same and carries the rounding error of each step into the next (Kahan).
RollingKernels == {"fresh", "running", "compensated"}

\* the window's sum and carried error <<sum, err>> after v is added to it
Accumulate(kernel, acc, v) ==
    IF IsNull(v) THEN acc
    ELSE IF kernel = "compensated"
        THEN LET y == Plus(v, Neg(acc[2]))
                 t == Plus(acc[1], y)
             IN  <<t, Plus(Plus(t, Neg(acc[1])), Neg(y))>>
    ELSE <<Plus(acc[1], v), Zero>>

RECURSIVE WindowSums(_, _, _, _)
\* <<sum, err>> of the windows of w values that end at the positions 1..i; a
\* value that leaves the window is added with its sign changed
WindowSums(kernel, vals, w, i) ==
    IF i = 0 THEN << >>
    ELSE LET before == WindowSums(kernel, vals, w, i - 1)
             last == IF i = 1 THEN <<Zero, Zero>> ELSE before[i - 1]
             left == IF i > w /\ ~IsNull(vals[i - w])
                         THEN Accumulate(kernel, last, Neg(vals[i - w]))
                         ELSE last
         IN  IF kernel = "fresh"
                 THEN before \o <<<<AggSum(SubSeq(vals, IF i > w THEN i - w + 1 ELSE 1, i)),
                                   Zero>>>>
                 ELSE before \o <<Accumulate(kernel, left, vals[i])>>

\* a faulty rolling mean with min_samples=1: the first positions get the mean
\* of the values there are
RollingMeanPartial(kernel, vals, w) ==
    LET sums == WindowSums(kernel, vals, w, Len(vals))
    IN  [i \in DOMAIN vals |->
            LET lo == IF i < w THEN 1 ELSE i - w + 1
            IN  IF \E j \in lo..i : IsNull(vals[j]) THEN Null
                ELSE Over(sums[i][1], i - lo + 1)]

\* Expr.rolling_mean(window_size): min_samples defaults to the window size, so
\* a position with fewer than window_size values, or a null among them, is
\* null; the others hold the window's sum divided by window_size
RollingMean(kernel, vals, w) ==
    LET sums == WindowSums(kernel, vals, w, Len(vals))
    IN  [i \in DOMAIN vals |->
            IF i < w \/ \E j \in (i - w + 1)..i : IsNull(vals[j]) THEN Null
            ELSE Over(sums[i][1], w)]

(***************************************************************************)
(* Grouping.                                                               *)
(***************************************************************************)
\* the distinct keys of the rows, in order of first appearance
GroupKeys(rows, keys) == FirstAppearance([i \in DOMAIN rows |-> KeyOf(rows[i], keys)])

\* the rows of the group with key k, in their order in the frame
GroupRows(rows, keys, k) ==
    AtIndices(rows, {i \in DOMAIN rows : KeyOf(rows[i], keys) = k})

\* group_by(keys, maintain_order=True).agg(...), aggs being
\* <<<<alias, op, column, dtype>>, ...>>: one row per group, the key columns
\* first, the groups in order of first appearance
GroupByInOrder(f, keys, aggs) ==
    LET ks == GroupKeys(f.rows, keys)
        alias(a) == CHOOSE i \in DOMAIN aggs : aggs[i][1] = a
        row(k) ==
            [c \in Range(keys) \cup {aggs[i][1] : i \in DOMAIN aggs} |->
                IF c \in Range(keys)
                    THEN k[CHOOSE i \in DOMAIN keys : keys[i] = c]
                    ELSE Aggregate(aggs[alias(c)][2],
                                   ColumnOf(GroupRows(f.rows, keys, k), aggs[alias(c)][3]))]
        schema == [i \in DOMAIN keys |-> <<keys[i], DtypeOf(f, keys[i])>>]
                  \o [i \in DOMAIN aggs |-> <<aggs[i][1], aggs[i][4]>>]
    IN  Frame(schema, [i \in DOMAIN ks |-> row(ks[i])])

\* group_by(keys).agg(...): without maintain_order the groups come out in any
\* order
GroupByAgg(f, keys, aggs) ==
    LET g == GroupByInOrder(f, keys, aggs)
    IN  {Frame(g.schema, rows) : rows \in Orderings(g.rows)}

\* with_columns(pl.col(column).<op>().over(keys).alias(name)): every row gets
\* the aggregate of its group
OverColumn(f, keys, name, op, column) ==
    WithColumn(f, name, "Float64",
        [i \in DOMAIN f.rows |->
            Aggregate(op, ColumnOf(GroupRows(f.rows, keys, KeyOf(f.rows[i], keys)), column))])

\* a faulty unique() that keeps repeated rows
KeepDuplicates(f) == f

\* DataFrame.unique(maintain_order=True): the distinct rows, each where it first
\* appears
UniqueInOrder(f) == Frame(f.schema, FirstAppearance(f.rows))

\* DataFrame.unique(): the distinct rows, in any order
UniqueOutcomes(f) ==
    LET u == UniqueInOrder(f) IN {Frame(u.schema, rows) : rows \in Orderings(u.rows)}

\* DataFrame.pivot(values=values, index=index, on=on, aggregate_function="mean"):
\* one row per index value and one column per "on" value, both in order of
\* first appearance
Pivot(f, values, index, on) ==
    LET ids == FirstAppearance(ColumnOf(f.rows, index))
        heads == FirstAppearance(ColumnOf(f.rows, on))
        cell(d, s) == AggMean(ColumnOf(
            AtIndices(f.rows, {i \in DOMAIN f.rows :
                                  f.rows[i][index] = d /\ f.rows[i][on] = s}), values))
    IN  Frame(<<<<index, DtypeOf(f, index)>>>>
                \o [i \in DOMAIN heads |-> <<heads[i], "Float64">>],
              [k \in DOMAIN ids |->
                  [c \in {index} \cup Range(heads) |->
                      IF c = index THEN ids[k] ELSE cell(ids[k], c)]])

(***************************************************************************)
(* Files.  A workbook and a CSV file hold rows by position under a header  *)
(* row (the CSV as text, without dtypes); a parquet file holds the schema  *)
(* and one array per column.                                               *)
(***************************************************************************)
Workbook(header, dtypes, body) ==
    [format |-> "xlsx", header |-> header, dtypes |-> dtypes, body |-> body]

\* the rows of a frame as tuples, in column order
Body(f) ==
    [k \in DOMAIN f.rows |-> [i \in DOMAIN f.schema |-> f.rows[k][f.schema[i][1]]]]

\* pl.read_excel(path) of a well-formed workbook
ReadExcel(w) ==
    LET at(c) == CHOOSE i \in DOMAIN w.header : w.header[i] = c
    IN  Frame([i \in DOMAIN w.header |-> <<w.header[i], w.dtypes[i]>>],
              [k \in DOMAIN w.body |-> [c \in Range(w.header) |-> w.body[k][at(c)]]])

\* DataFrame.write_csv(path)
WriteCsv(f) == [format |-> "csv", lines |-> <<Columns(f)>> \o Body(f)]

\* DataFrame.write_excel(path)
WriteExcel(f) == Workbook(Columns(f), Dtypes(f), Body(f))

\* DataFrame.write_parquet(path)
WriteParquet(f) ==
    [format |-> "parquet", schema |-> f.schema,
     data |-> [c \in Range(Columns(f)) |-> ColumnOf(f.rows, c)]]

\* what a write that failed part-way leaves behind
Truncated == [format |-> "truncated"]

(***************************************************************************)
(* Cell results.  Executing a cell yields a new namespace, a new file      *)
(* system and the cell's result: the value of its last expression, or the  *)
(* exception that ended it.  No cell catches an exception.                 *)
(***************************************************************************)
NoValue == [kind |-> "none"]
ShowFrame(f) == [kind |-> "frame", data |-> f]
ShowList(l) == [kind |-> "list", data |-> l]

Ok(c, n, f, value) ==
    [ns |-> n, fs |-> f, out |-> [cell |-> c, status |-> "ok", value |-> value]]

Raise(c, n, f, ename, detail) ==
    [ns |-> n, fs |-> f,
     out |-> [cell |-> c, status |-> "error",
              value |-> [kind |-> "error", ename |-> ename, detail |-> detail]]]

\* the names among `names` that the namespace does not bind, in evaluation order
Missing(n, names) == SelectSeq(names, LAMBDA x : x \notin DOMAIN n)

NameError(c, n, f, names) == Raise(c, n, f, "NameError", Head(Missing(n, names)))

Bind(n, name, v) == (name :> v) @@ n

\* whether .dt can be applied to the Date column
Temporal(f) == DtypeOf(f, DateCol) = "Datetime"

DtError(c, n, f) == Raise(c, n, f, "PolarsError", "dt on a non-temporal column")

(***************************************************************************)
(* The code cells, in notebook order.  Each operator gives the set of      *)
(* results the cell can have in namespace n and file system f.             *)
(***************************************************************************)
\* imports, and pio.templates.default = 'plotly_white'.  import polars as pl
\* binds the installed build, which Python loads once and hands out again when
\* the import is repeated.
Cell_setup(n, f) ==
    {Ok("setup",
        Bind(Bind(Bind(Bind(n, "Path", [module |-> "pathlib"]),
                            "pl", pl),
                       "px", [module |-> "plotly.express"]),
                  "pio", [module |-> "plotly.io", template |-> "plotly_white"]),
        f, NoValue) :
        pl \in IF "pl" \in DOMAIN n THEN {n.pl}
               ELSE {[module |-> "polars", rolling |-> k] : k \in RollingKernels}}

\* data_path = ...; df = pl.read_excel(data_path); df.head()
Cell_load(n, f) ==
    IF Missing(n, <<"Path">>) # << >> THEN {NameError("load", n, f, <<"Path">>)}
    ELSE LET n1 == Bind(n, "data_path", [path |-> DataPath])
         IN  IF Missing(n1, <<"pl">>) # << >> THEN {NameError("load", n1, f, <<"pl">>)}
             ELSE IF DataPath \notin DOMAIN f
                 THEN {Raise("load", n1, f, "FileNotFoundError", DataPath)}
             ELSE IF f[DataPath].format # "xlsx"
                 THEN {Raise("load", n1, f, "ExcelReadError", DataPath)}
             ELSE LET df == ReadExcel(f[DataPath])
                  IN  {Ok("load", Bind(n1, "df", df), f, ShowFrame(HeadFrame(df, HeadRows)))}

\* the least and the greatest value of a column, nulls aside
ColumnMin(f, c) ==
    LET vals == ColumnOf(f.rows, c)
    IN  IF DtypeOf(f, c) = "Float64" THEN AggMin(vals)
        ELSE CHOOSE m \in Range(vals) :
                \A v \in Range(vals) : ~ValueBefore(DtypeOf(f, c), v, m, FALSE)

ColumnMax(f, c) ==
    LET vals == ColumnOf(f.rows, c)
    IN  IF DtypeOf(f, c) = "Float64" THEN AggMax(vals)
        ELSE CHOOSE m \in Range(vals) :
                \A v \in Range(vals) : ~ValueBefore(DtypeOf(f, c), m, v, FALSE)

\* print(df.describe()): of the statistics table, the rows count, null_count,
\* min and max (mean, std and the quantiles are not modelled)
Describe(df) ==
    LET cols == Range(Columns(df))
        nulls(c) == IF DtypeOf(df, c) # "Float64" THEN 0
                    ELSE Cardinality({k \in DOMAIN df.rows : IsNull(df.rows[k][c])})
    IN  [count |-> [c \in cols |-> Len(df.rows) - nulls(c)],
         null_count |-> [c \in cols |-> nulls(c)],
         min |-> [c \in cols |-> ColumnMin(df, c)],
         max |-> [c \in cols |-> ColumnMax(df, c)]]

Cell_describe(n, f) ==
    IF Missing(n, <<"df">>) # << >> THEN {NameError("describe", n, f, <<"df">>)}
    ELSE {Ok("describe", n, f, [kind |-> "stdout", data |-> Describe(n.df)])}

\* df.dtypes
Cell_dtypes(n, f) ==
    IF Missing(n, <<"df">>) # << >> THEN {NameError("dtypes", n, f, <<"df">>)}
    ELSE {Ok("dtypes", n, f, ShowList(Dtypes(n.df)))}

\* df.columns
Cell_columns(n, f) ==
    IF Missing(n, <<"df">>) # << >> THEN {NameError("columns", n, f, <<"df">>)}
    ELSE {Ok("columns", n, f, ShowList(Columns(n.df)))}

\* df.schema
Cell_schema(n, f) ==
    IF Missing(n, <<"df">>) # << >> THEN {NameError("schema", n, f, <<"df">>)}
    ELSE {Ok("schema", n, f, [kind |-> "schema", data |-> n.df.schema])}

\* df.select(["Date", "Actual Generation (GWh)", "Primary Source"])
Cell_select(n, f) ==
    IF Missing(n, <<"df">>) # << >> THEN {NameError("select", n, f, <<"df">>)}
    ELSE {Ok("select", n, f,
             ShowFrame(SelectColumns(n.df, <<DateCol, GenCol, SourceCol>>)))}

\* df.rename({...})
Cell_rename(n, f) ==
    IF Missing(n, <<"df">>) # << >> THEN {NameError("rename", n, f, <<"df">>)}
    ELSE {Ok("rename", n, f,
             ShowFrame(RenameColumns(n.df,
                 (GenCol :> "Generation") @@ (SourceCol :> "Source"))))}

\* df.with_columns((pl.col("Actual Generation (GWh)") * 1000).alias("Generation_MWh"))
Cell_with_columns(n, f) ==
    IF Missing(n, <<"df", "pl">>) # << >>
        THEN {NameError("with_columns", n, f, <<"df", "pl">>)}
    ELSE {Ok("with_columns", n, f,
             ShowFrame(WithColumn(n.df, "Generation_MWh", "Float64",
                 [k \in DOMAIN n.df.rows |-> Times(n.df.rows[k][GenCol], MWhFactor)])))}

\* df.filter(pl.col("Primary Source") == "Thermal")
Cell_filter_source(n, f) ==
    IF Missing(n, <<"df", "pl">>) # << >>
        THEN {NameError("filter_source", n, f, <<"df", "pl">>)}
    ELSE {Ok("filter_source", n, f,
             ShowFrame(Filter(n.df,
                 [k \in DOMAIN n.df.rows |-> n.df.rows[k][SourceCol] = "Thermal"])))}

\* df.filter(pl.col("Actual Generation (GWh)") > 10)
Cell_filter_generation(n, f) ==
    IF Missing(n, <<"df", "pl">>) # << >>
        THEN {NameError("filter_generation", n, f, <<"df", "pl">>)}
    ELSE {Ok("filter_generation", n, f,
             ShowFrame(Filter(n.df,
                 [k \in DOMAIN n.df.rows |->
                     GreaterThan(n.df.rows[k][GenCol], GenThreshold)])))}

\* a faulty sort cell that sorts in place: df = df.sort(...)
SortInPlace(n, f) ==
    IF Missing(n, <<"df">>) # << >> THEN {NameError("sort", n, f, <<"df">>)}
    ELSE {Ok("sort", Bind(n, "df", s), f, ShowFrame(s)) :
             s \in SortOutcomes(n.df, <<GenCol>>, TRUE)}

\* df.sort("Actual Generation (GWh)", descending=True)
Cell_sort(n, f) ==
    IF Missing(n, <<"df">>) # << >> THEN {NameError("sort", n, f, <<"df">>)}
    ELSE {Ok("sort", n, f, ShowFrame(s)) : s \in SortOutcomes(n.df, <<GenCol>>, TRUE)}

\* df.group_by("Primary Source").agg(sum, mean, count)
Cell_group_by_source(n, f) ==
    IF Missing(n, <<"df", "pl">>) # << >>
        THEN {NameError("group_by_source", n, f, <<"df", "pl">>)}
    ELSE {Ok("group_by_source", n, f, ShowFrame(g)) :
             g \in GroupByAgg(n.df, <<SourceCol>>,
                      <<<<"Total_Generation", "sum", GenCol, "Float64">>,
                        <<"Avg_Generation", "mean", GenCol, "Float64">>,
                        <<"Count", "count", GenCol, "UInt32">>>>)}

\* df.group_by("Primary Source").agg(max)
Cell_group_by_max(n, f) ==
    IF Missing(n, <<"df", "pl">>) # << >>
        THEN {NameError("group_by_max", n, f, <<"df", "pl">>)}
    ELSE {Ok("group_by_max", n, f, ShowFrame(g)) :
             g \in GroupByAgg(n.df, <<SourceCol>>, <<<<"Max Gen", "max", GenCol, "Float64">>>>)}

\* df.with_columns(pl.col("Date").dt.hour().alias("Hour"))
WithHour(df) ==
    WithColumn(df, "Hour", "Int8", [k \in DOMAIN df.rows |-> DtHour(df.rows[k][DateCol])])

Cell_hour(n, f) ==
    IF Missing(n, <<"df", "pl">>) # << >> THEN {NameError("hour", n, f, <<"df", "pl">>)}
    ELSE IF ~Temporal(n.df) THEN {DtError("hour", n, f)}
    ELSE {Ok("hour", n, f, ShowFrame(WithHour(n.df)))}

\* df.with_columns(Hour).group_by("Hour").agg(mean), in one of its row orders
HourlyMeans(df) ==
    GroupByInOrder(WithHour(df), <<"Hour">>,
                   <<<<"Hourly Generation", "mean", GenCol, "Float64">>>>)

\* generation_df = df.with_columns(Hour).group_by("Hour").agg(mean).sort('Hour')
\* The outcomes of sort() do not depend on the order group_by() returns the
\* groups in, so they are taken from one of its orders.
GenerationDf(df) == SortOutcomes(HourlyMeans(df), <<"Hour">>, FALSE)

Cell_generation_df(n, f) ==
    IF Missing(n, <<"df", "pl">>) # << >>
        THEN {NameError("generation_df", n, f, <<"df", "pl">>)}
    ELSE IF ~Temporal(n.df) THEN {DtError("generation_df", n, f)}
    ELSE {Ok("generation_df", Bind(n, "generation_df", g), f, NoValue) :
             g \in GenerationDf(n.df)}

\* px.line(generation_df, x='Hour', y='Hourly Generation'): one trace
Cell_px_line(n, f) ==
    IF Missing(n, <<"px", "generation_df">>) # << >>
        THEN {NameError("px_line", n, f, <<"px", "generation_df">>)}
    ELSE {Ok("px_line", n, f,
             [kind |-> "figure", type |-> "line", template |-> n.pio.template,
              traces |-> <<[x |-> ColumnOf(n.generation_df.rows, "Hour"),
                            y |-> ColumnOf(n.generation_df.rows, "Hourly Generation")]>>])}

\* df.with_columns(Hour).with_columns(mean.over('Hour', 'Primary Source'))
\*   .select('Hour', 'Primary Source', "Hourly Generation")
HourSourceMeans(df) ==
    SelectColumns(OverColumn(WithHour(df), <<"Hour", SourceCol>>,
                             "Hourly Generation", "mean", GenCol),
                  <<"Hour", SourceCol, "Hourly Generation">>)

\* generation_by_hour_source_df = df.with_columns(Hour)
\*     .with_columns(mean.over('Hour', 'Primary Source')).select(...).unique().sort('Hour')
\* The outcomes of sort() do not depend on the order unique() returns the rows
\* in, so they are taken from one of its orders.
GenerationByHourSourceDf(df) ==
    SortOutcomes(UniqueInOrder(HourSourceMeans(df)), <<"Hour">>, FALSE)

Cell_generation_by_hour_source_df(n, f) ==
    IF Missing(n, <<"df", "pl">>) # << >>
        THEN {NameError("generation_by_hour_source_df", n, f, <<"df", "pl">>)}
    ELSE IF ~Temporal(n.df) THEN {DtError("generation_by_hour_source_df", n, f)}
    ELSE {Ok("generation_by_hour_source_df",
             Bind(n, "generation_by_hour_source_df", g), f, NoValue) :
             g \in GenerationByHourSourceDf(n.df)}

\* px.area(generation_by_hour_source_df, x='Hour', y='Hourly Generation',
\*         color='Primary Source'): one trace per source, in order of appearance
Cell_px_area(n, f) ==
    IF Missing(n, <<"px", "generation_by_hour_source_df">>) # << >>
        THEN {NameError("px_area", n, f, <<"px", "generation_by_hour_source_df">>)}
    ELSE LET rows == n.generation_by_hour_source_df.rows
             colors == FirstAppearance(ColumnOf(rows, SourceCol))
             of(c) == AtIndices(rows, {k \in DOMAIN rows : rows[k][SourceCol] = c})
         IN  {Ok("px_area", n, f,
                 [kind |-> "figure", type |-> "area", template |-> n.pio.template,
                  traces |-> [i \in DOMAIN colors |->
                      [name |-> colors[i],
                       x |-> ColumnOf(of(colors[i]), "Hour"),
                       y |-> ColumnOf(of(colors[i]), "Hourly Generation")]]])}

\* df.pivot(values=..., index="Date", on="Primary Source", aggregate_function="mean")
Cell_pivot(n, f) ==
    IF Missing(n, <<"df">>) # << >> THEN {NameError("pivot", n, f, <<"df">>)}
    ELSE {Ok("pivot", n, f, ShowFrame(Pivot(n.df, GenCol, DateCol, SourceCol)))}

\* df.select(Date, sum.over('Date'))
DateTotals(df) ==
    OverColumn(SelectColumns(df, <<DateCol, GenCol>>), <<DateCol>>, GenCol, "sum", GenCol)

\* df.select(Date, sum.over('Date')).unique().sort('Date')
\*   .select(Date, rolling_mean(24))
\* The outcomes of sort() do not depend on the order unique() returns the rows
\* in, so they are taken from one of its orders.
RollingDf(pl, df) ==
    {WithColumn(t, GenCol, "Float64",
                RollingMean(pl.rolling, ColumnOf(t.rows, GenCol), WindowSize)) :
        t \in SortOutcomes(UniqueInOrder(DateTotals(df)), <<DateCol>>, FALSE)}

Cell_rolling(n, f) ==
    IF Missing(n, <<"df", "pl">>) # << >> THEN {NameError("rolling", n, f, <<"df", "pl">>)}
    ELSE {Ok("rolling", n, f, ShowFrame(r)) : r \in RollingDf(n.pl, n.df)}

\* df.with_columns(date = pl.col('Date').dt.date())
WithDate(df) ==
    WithColumn(df, "date", "Date", [k \in DOMAIN df.rows |-> DtDate(df.rows[k][DateCol])])

\* the keys and the aggregation of .group_by('date', 'Primary Source').agg(sum)
DailyKeys == <<"date", SourceCol>>
DailySum == <<<<"generation_gwh", "sum", GenCol, "Float64">>>>

\* .select(pl.col('date'), pl.col('generation_gwh'), pl.col('Primary Source').alias('source'))
SelectOutput(g) ==
    SelectAs(g, <<<<"date", "date">>, <<"generation_gwh", "generation_gwh">>,
                  <<SourceCol, "source">>>>)

\* a faulty output_df without the final .sort('date', 'source')
OutputDfUnsorted(df) ==
    {SelectOutput(g) : g \in GroupByAgg(WithDate(df), DailyKeys, DailySum)}

\* output_df = df.with_columns(date).group_by('date', 'Primary Source')
\*     .agg(sum.alias('generation_gwh')).select(date, generation_gwh, source)
\*     .sort('date', 'source')
\* The outcomes of sort() do not depend on the order group_by() returns the
\* groups in, so they are taken from one of its orders.
OutputDf(df) ==
    SortOutcomes(SelectOutput(GroupByInOrder(WithDate(df), DailyKeys, DailySum)),
                 <<"date", "source">>, FALSE)

Cell_output_df(n, f) ==
    IF Missing(n, <<"df", "pl">>) # << >>
        THEN {NameError("output_df", n, f, <<"df", "pl">>)}
    ELSE IF ~Temporal(n.df) THEN {DtError("output_df", n, f)}
    ELSE {Ok("output_df", Bind(n, "output_df", o), f, NoValue) : o \in OutputDf(n.df)}

\* the three writes of the export cell, in order
ExportWrites(t) ==
    <<<<CsvPath, WriteCsv(t)>>, <<XlsxPath, WriteExcel(t)>>,
      <<ParquetPath, WriteParquet(t)>>>>

\* the file system after the first k of the writes w
Written(f, w, k) ==
    [p \in DOMAIN f \cup {w[i][1] : i \in 1..k} |->
        IF \E i \in 1..k : w[i][1] = p
            THEN w[CHOOSE i \in 1..k : w[i][1] = p][2]
            ELSE f[p]]

\* a faulty export cell that writes df, the table as loaded, to the three files
ExportOfDf(n, f) ==
    IF Missing(n, <<"output_df", "df">>) # << >>
        THEN {NameError("export", n, f, <<"output_df", "df">>)}
    ELSE {Ok("export", n, Written(f, ExportWrites(n.df), 3), NoValue)}

\* output_df.write_csv(..); output_df.write_excel(..); output_df.write_parquet(..)
\* Any write can fail; the failing write leaves its file as it was or truncated.
Cell_export(n, f) ==
    IF Missing(n, <<"output_df">>) # << >>
        THEN {NameError("export", n, f, <<"output_df">>)}
    ELSE LET w == ExportWrites(n.output_df)
         IN  {Ok("export", n, f1, NoValue) : f1 \in {Written(f, w, Len(w))}}
             \cup {Raise("export", n, Written(f, w, k - 1), "OSError", w[k][1]) :
                      k \in DOMAIN w}
             \cup {Raise("export", n, Bind(Written(f, w, k - 1), w[k][1], Truncated),
                         "OSError", w[k][1]) : k \in DOMAIN w}

(***************************************************************************)
(* The notebook.                                                           *)
(***************************************************************************)
\* a different notebook, with both charts moved below the last transformation
ChartsAfterTransforms ==
    <<"setup", "load", "describe", "dtypes", "columns", "schema", "select",
      "rename", "with_columns", "filter_source", "filter_generation", "sort",
      "group_by_source", "group_by_max", "hour", "generation_df",
      "generation_by_hour_source_df", "pivot", "rolling", "output_df",
      "px_line", "px_area", "export">>

\* the code cells, top to bottom
NotebookCells ==
    <<"setup", "load", "describe", "dtypes", "columns", "schema", "select",
      "rename", "with_columns", "filter_source", "filter_generation", "sort",
      "group_by_source", "group_by_max", "hour", "generation_df", "px_line",
      "generation_by_hour_source_df", "px_area", "pivot", "rolling",
      "output_df", "export">>

\* A batch run executes the cell at the head of the queue; an interactive
\* session executes whichever cell is asked for.
Scheduled(c) ==
    IF session = "batch" THEN queue # << >> /\ Head(queue) = c ELSE queue = << >>

\* a faulty run that carries on with the next cell after an exception
DequeueRegardless(q, status) == IF q = << >> THEN << >> ELSE Tail(q)

\* An exception ends a batch run: the cells still queued are dropped.
Dequeue(q, status) ==
    IF q = << >> \/ status = "error" THEN << >> ELSE Tail(q)

\* The kernel takes one of the cell's results.
Apply(results) ==
    /\ \E r \in results :
          /\ ns' = r.ns
          /\ fs' = r.fs
          /\ out' = r.out
          /\ queue' = Dequeue(queue, r.out.status)
    /\ UNCHANGED session

Setup ==
    /\ Scheduled("setup")
    /\ Apply(Cell_setup(ns, fs))

Load ==
    /\ Scheduled("load")
    /\ Apply(Cell_load(ns, fs))

DescribeCell ==
    /\ Scheduled("describe")
    /\ Apply(Cell_describe(ns, fs))

DtypesCell ==
    /\ Scheduled("dtypes")
    /\ Apply(Cell_dtypes(ns, fs))

ColumnsCell ==
    /\ Scheduled("columns")
    /\ Apply(Cell_columns(ns, fs))

SchemaCell ==
    /\ Scheduled("schema")
    /\ Apply(Cell_schema(ns, fs))

Select ==
    /\ Scheduled("select")
    /\ Apply(Cell_select(ns, fs))

Rename ==
    /\ Scheduled("rename")
    /\ Apply(Cell_rename(ns, fs))

WithColumns ==
    /\ Scheduled("with_columns")
    /\ Apply(Cell_with_columns(ns, fs))

FilterSource ==
    /\ Scheduled("filter_source")
    /\ Apply(Cell_filter_source(ns, fs))

FilterGeneration ==
    /\ Scheduled("filter_generation")
    /\ Apply(Cell_filter_generation(ns, fs))

Sort ==
    /\ Scheduled("sort")
    /\ Apply(Cell_sort(ns, fs))

GroupBySource ==
    /\ Scheduled("group_by_source")
    /\ Apply(Cell_group_by_source(ns, fs))

GroupByMax ==
    /\ Scheduled("group_by_max")
    /\ Apply(Cell_group_by_max(ns, fs))

Hour ==
    /\ Scheduled("hour")
    /\ Apply(Cell_hour(ns, fs))

GenerationDfCell ==
    /\ Scheduled("generation_df")
    /\ Apply(Cell_generation_df(ns, fs))

PxLine ==
    /\ Scheduled("px_line")
    /\ Apply(Cell_px_line(ns, fs))

GenerationByHourSourceDfCell ==
    /\ Scheduled("generation_by_hour_source_df")
    /\ Apply(Cell_generation_by_hour_source_df(ns, fs))

PxArea ==
    /\ Scheduled("px_area")
    /\ Apply(Cell_px_area(ns, fs))

PivotCell ==
    /\ Scheduled("pivot")
    /\ Apply(Cell_pivot(ns, fs))

Rolling ==
    /\ Scheduled("rolling")
    /\ Apply(Cell_rolling(ns, fs))

OutputDfCell ==
    /\ Scheduled("output_df")
    /\ Apply(Cell_output_df(ns, fs))

Export ==
    /\ Scheduled("export")
    /\ Apply(Cell_export(ns, fs))

Next ==
    \/ Setup \/ Load \/ DescribeCell \/ DtypesCell \/ ColumnsCell \/ SchemaCell
    \/ Select \/ Rename \/ WithColumns \/ FilterSource \/ FilterGeneration
    \/ Sort \/ GroupBySource \/ GroupByMax \/ Hour \/ GenerationDfCell \/ PxLine
    \/ GenerationByHourSourceDfCell \/ PxArea \/ PivotCell \/ Rolling
    \/ OutputDfCell \/ Export

(***************************************************************************)
(* Inputs: the spreadsheet at DataPath, if there is one.                   *)
(***************************************************************************)
Timestamps == {0, 1, 24}
Sources == <<"Hydro", "Thermal">>
Readings == <<Null, Num(12)>>

InputHeader == <<DateCol, GenCol, SourceCol>>
Sheet(body) == Workbook(InputHeader, <<"Datetime", "Float64", "String">>, body)

\* the same cells with the Date column stored as text
IsoText(t) == Lexicon[(t \div HoursPerDay) * 2 + (t % HoursPerDay) + 1]
TextSheet(body) ==
    Workbook(InputHeader, <<"String", "Float64", "String">>,
             [k \in DOMAIN body |-> <<IsoText(body[k][1]), body[k][2], body[k][3]>>])

\* every sheet of 1..MaxRows rows over the small domains
SmallBodies ==
    UNION {[1..k -> Timestamps \X Range(Readings) \X Range(Sources)] : k \in 1..MaxRows}

\* An hourly series of the timestamps 0..k-1, one row each, the sources
\* alternating and the reading at timestamp t being the decimal
\* (t + 1) * step / 10: with step 5 the readings are 0.5, 1.0, 1.5, ..., which
\* binary64 holds exactly, with step 1 they are 0.1, 0.2, 0.3, ..., which it
\* does not; with `gap` the reading at timestamp 2 is missing; the first
\* `twins` timestamps have a second row, of the other source and with the same
\* reading; with `rev` the rows are listed last to first.
SeriesBody(k, step, gap, twins, rev) ==
    LET at(t) == IF gap /\ t = 2 THEN Null ELSE Decimal((t + 1) * step, 1)
        one == [i \in 1..k |-> <<i - 1, at(i - 1), Sources[((i - 1) % 2) + 1]>>]
        two == [i \in 1..twins |-> <<i - 1, at(i - 1), Sources[(i % 2) + 1]>>]
        all == one \o two
    IN  IF rev THEN Reverse(all) ELSE all

SeriesBodies ==
    {SeriesBody(k, step, gap, twins, rev) :
        k \in (WindowSize - 1)..MaxSeries, step \in {1, 5}, gap \in BOOLEAN,
        twins \in {0, 2}, rev \in BOOLEAN}

\* a few sheets with several readings per key, gaps and nulls
SampleBodies ==
    {<<<<0, Num(3), "Hydro">>, <<0, Num(12), "Thermal">>>>,
     <<<<1, Num(12), "Hydro">>, <<25, Num(3), "Hydro">>, <<1, Num(3), "Thermal">>>>,
     <<<<1, Num(12), "Hydro">>, <<1, Num(3), "Hydro">>, <<1, Null, "Thermal">>,
       <<24, Num(3), "Hydro">>>>,
     <<<<0, Decimal(5, 1), "Hydro">>, <<0, Decimal(5, 1), "Hydro">>,
       <<1, Decimal(15, 1), "Hydro">>, <<1, Decimal(5, 1), "Thermal">>>>}

\* sheets whose readings 0.1, 0.2 and 0.3 add up differently in binary64
\* depending on the order they are added in
RoundingBodies ==
    {<<<<0, Decimal(3, 1), "Thermal">>, <<0, Decimal(2, 1), "Hydro">>,
       <<0, Decimal(1, 1), "Hydro">>>>,
     <<<<0, Decimal(1, 1), "Hydro">>, <<0, Decimal(2, 1), "Hydro">>,
       <<1, Decimal(3, 1), "Hydro">>, <<0, Decimal(3, 1), "Thermal">>>>}

OnDisk(w) == DataPath :> w
NoFiles == << >>
Corrupt == [format |-> "corrupt"]

BatchInputs ==
    {OnDisk(Sheet(b)) : b \in SmallBodies \cup SeriesBodies \cup SampleBodies
                                         \cup RoundingBodies}
    \cup {OnDisk(TextSheet(b)) : b \in SampleBodies}
    \cup {NoFiles, OnDisk(Corrupt)}

\* an interactive session is tried on the sample sheets of up to three rows,
\* and on the shortest of them with the Date column stored as text
InteractiveInputs ==
    {OnDisk(Sheet(b)) : b \in {c \in SampleBodies \cup RoundingBodies : Len(c) <= 3}}
    \cup {OnDisk(TextSheet(b)) : b \in {c \in SampleBodies : Len(c) < 3}}
    \cup {NoFiles}

Fresh ==
    /\ ns = << >>
    /\ out = [cell |-> "", status |-> "ok", value |-> NoValue]

\* an interactive session on a fresh kernel
Init ==
    /\ Fresh
    /\ fs \in InteractiveInputs
    /\ queue = << >>
    /\ session = "interactive"

\* a top-to-bottom run on a fresh kernel
InitRunAll ==
    /\ Fresh
    /\ fs \in BatchInputs
    /\ queue = NotebookCells
    /\ session = "batch"

Spec == Init /\ [][Next]_vars

SpecRunAll == InitRunAll /\ [][Next]_vars

(***************************************************************************)
(* Vocabulary of the properties.  Totals and means are restated here from  *)
(* the rows of df directly, without grouping, and set against the sums of  *)
(* the same readings as real numbers, where nothing is rounded.            *)
(***************************************************************************)
Bound(name) == name \in DOMAIN ns
Completed(c) == out.cell = c /\ out.status = "ok"
Pending(c) == c \in Range(queue)
OutputPaths == {CsvPath, XlsxPath, ParquetPath}

\* the rows of df with a reading
WithReading(df) == {i \in DOMAIN df.rows : ~IsNull(df.rows[i][GenCol])}

\* the readings of the rows idx of df, in row order
ReadingsAt(df, idx) == AtIndices(ColumnOf(df.rows, GenCol), idx \cap WithReading(df))

\* their Float64 sum, added in row order
SumAt(df, idx) == Total(ReadingsAt(df, idx))

\* Real numbers that are binary fractions: <<s, m, e>> with m of any size.
RECURSIVE RealTotal(_)
\* the sum of a sequence of values as a real number
RealTotal(vals) ==
    IF vals = << >> THEN Zero
    ELSE Sum(RealTotal(SubSeq(vals, 1, Len(vals) - 1)), vals[Len(vals)])

\* a * k and a * 2^d, for integers k >= 0 and d
RealTimes(a, k) == IF k = 0 \/ a[1] = 0 THEN Zero ELSE <<a[1], NatTimes(a[2], k), a[3]>>
Scaled(a, d) == <<a[1], a[2], a[3] + d>>

\* |a|, and the sum of the |v| of a sequence of values
Magnitude(a) == <<a[1] * a[1], a[2], a[3]>>
Mass(vals) == RealTotal([i \in DOMAIN vals |-> Magnitude(vals[i])])

\* a <= b
RealLeq(a, b) == Sum(a, Neg(b))[1] <= 0

\* v is r up to n roundings of numbers no larger than a:
\* |v - r| <= n * a * 2^(1 - Precision)
Within(v, r, a, n) ==
    RealLeq(Magnitude(Sum(v, Neg(r))), Scaled(RealTimes(a, n), 1 - Precision))

\* The values are multiples of one power of 2 that is large enough for the sum
\* of their magnitudes to have no more than Precision digits: then no sum or
\* difference of some of them is rounded.
OnGrid(vals) == BitLength(Mass(vals)[2]) <= Precision

\* v is the Float64 sum of the values x, added in order, which is their real
\* sum up to the rounding of each addition
IsSumOf(v, x) ==
    /\ v = Total(x)
    /\ Within(v, RealTotal(x), Mass(x), Len(x))

\* v is the Float64 mean of the values x, the sum added in order and divided
\* by their number, which is their real mean up to the rounding of each step;
\* it is null if there is no value
IsMeanOf(v, x) ==
    IF x = << >> THEN IsNull(v)
    ELSE /\ ~IsNull(v)
         /\ v = Over(Total(x), Len(x))
         /\ Within(RealTimes(v, Len(x)), RealTotal(x), Mass(x), Len(x) + 1)

\* the rows of df of a calendar date and source, of a Date, of a Date and
\* source, and of an hour and source
OnDateSource(df, d, s) ==
    {i \in DOMAIN df.rows : DtDate(df.rows[i][DateCol]) = d /\ df.rows[i][SourceCol] = s}
OnDate(df, d) == {i \in DOMAIN df.rows : df.rows[i][DateCol] = d}
AtDateSource(df, d, s) ==
    {i \in DOMAIN df.rows : df.rows[i][DateCol] = d /\ df.rows[i][SourceCol] = s}
AtHourSource(df, h, s) ==
    {i \in DOMAIN df.rows : DtHour(df.rows[i][DateCol]) = h /\ df.rows[i][SourceCol] = s}

\* a table as a file presents it: the header and the rows by position
TableOf(t) == [columns |-> Columns(t), body |-> Body(t)]
CsvTable(file) == [columns |-> Head(file.lines), body |-> Tail(file.lines)]
XlsxTable(file) == [columns |-> file.header, body |-> file.body]
ParquetTable(file) ==
    LET names == [i \in DOMAIN file.schema |-> file.schema[i][1]]
    IN  [columns |-> names,
         body |-> [k \in DOMAIN file.data[names[1]] |->
                     [i \in DOMAIN names |-> file.data[names[i]][k]]]]

DateSourcePairs(df) == {<<DtDate(r[DateCol]), r[SourceCol]>> : r \in Range(df.rows)}

(***************************************************************************)
(* C1.  After the export cell has completed, output.csv, output.xlsx and   *)
(* output.parquet all hold the table output_df; that table has the columns *)
(* date, source and generation_gwh, and exactly one row for every          *)
(* (calendar date, source) pair of df and no other row, its generation     *)
(* being the sum of the readings of df's rows with that date and source:   *)
(* the Float64 sum taken in row order, which is the real sum up to the     *)
(* rounding of each addition.                                              *)
(***************************************************************************)
C1_ExportedTable ==
    Completed("export") =>
        LET t == ns.output_df
            df == ns.df
        IN  /\ CsvTable(fs[CsvPath]) = TableOf(t)
            /\ XlsxTable(fs[XlsxPath]) = TableOf(t)
            /\ ParquetTable(fs[ParquetPath]) = TableOf(t)
            /\ Range(Columns(t)) = {"date", "source", "generation_gwh"}
            /\ Len(Columns(t)) = 3
            /\ {<<r["date"], r["source"]>> : r \in Range(t.rows)} = DateSourcePairs(df)
            /\ Len(t.rows) = Cardinality(DateSourcePairs(df))
            /\ \A r \in Range(t.rows) :
                  IsSumOf(r["generation_gwh"],
                          ReadingsAt(df, OnDateSource(df, r["date"], r["source"])))

\* an export of several rows, one of which sums three readings to a Float64
\* that is not the nearest to their real sum
C1_Witness ==
    /\ Completed("export")
    /\ Len(ns.output_df.rows) >= 2
    /\ \E r \in Range(ns.output_df.rows) :
          LET x == ReadingsAt(ns.df, OnDateSource(ns.df, r["date"], r["source"]))
              real == RealTotal(x)
          IN  /\ Len(x) >= 3
              /\ r["generation_gwh"] # Round(real[1], real[2], real[3])

(***************************************************************************)
(* C2.  Phase order of a top-to-bottom run.                                *)
(***************************************************************************)
EarlyTransforms ==
    {"select", "rename", "with_columns", "filter_source", "filter_generation",
     "sort", "group_by_source", "group_by_max", "hour", "generation_df"}
LateTransforms == {"pivot", "rolling", "output_df"}
WindowCell == "generation_by_hour_source_df"
TransformCells == EarlyTransforms \cup {WindowCell} \cup LateTransforms
ChartCells == {"px_line", "px_area"}

\* C2 as stated: load comes before every other use of df, every transformation
\* cell has run when a chart is rendered, and both charts are rendered before
\* any output file is written.
C2_AsStated ==
    /\ (out.status = "ok" /\ out.cell \notin {"", "setup"}) => ~Pending("load")
    /\ (out.status = "ok" /\ out.cell \in ChartCells) =>
          \A c \in TransformCells : ~Pending(c)
    /\ DOMAIN fs \cap OutputPaths # {} => \A c \in ChartCells : ~Pending(c)

\* C2 as the notebook orders its cells: load comes before every other use of
\* df; the line chart is rendered after the transformations up to
\* generation_df and before the window, pivot, rolling and output_df cells; the
\* area chart is rendered after the window cell and before the pivot, rolling
\* and output_df cells; and both charts and every transformation cell have run
\* before any output file is written.
C2_PhaseOrder ==
    /\ (out.status = "ok" /\ out.cell \notin {"", "setup"}) => ~Pending("load")
    /\ Completed("px_line") =>
          /\ \A c \in EarlyTransforms : ~Pending(c)
          /\ \A c \in {WindowCell} \cup LateTransforms : Pending(c)
    /\ Completed("px_area") =>
          /\ \A c \in EarlyTransforms \cup {WindowCell} : ~Pending(c)
          /\ \A c \in LateTransforms : Pending(c)
    /\ DOMAIN fs \cap OutputPaths # {} =>
          \A c \in ChartCells \cup TransformCells : ~Pending(c)

\* the area chart is on screen while pivot and rolling are still to run
C2_Witness ==
    /\ session = "batch"
    /\ Completed("px_area")
    /\ Pending("pivot") /\ Pending("rolling") /\ Pending("export")
    /\ Bound("generation_by_hour_source_df")

(***************************************************************************)
(* C3.  The tables the cells share, and df being read-only.                *)
(***************************************************************************)
ImportNames == {"Path", "pl", "px", "pio"}
DerivedNames == {"generation_df", "generation_by_hour_source_df", "output_df"}

\* C3 as stated: df is the only table the namespace carries from cell to cell,
\* and whatever cells have run, in whatever order, df is the table read_excel
\* produced.
C3_AsStated ==
    /\ DOMAIN ns \cap DerivedNames = {}
    /\ Bound("df") => DataPath \in DOMAIN fs /\ ns.df = ReadExcel(fs[DataPath])

\* C3 with the derived tables admitted: the namespace carries df and, once
\* their cells have run, generation_df, generation_by_hour_source_df and
\* output_df (besides the imports and data_path) and nothing else; the derived
\* tables exist only after the load; and whatever cells have run, in whatever
\* order, df is the table read_excel produced.
C3_DfReadOnly ==
    /\ DOMAIN ns \subseteq ImportNames \cup {"data_path", "df"} \cup DerivedNames
    /\ DOMAIN ns \cap DerivedNames # {} => Bound("df")
    /\ Bound("df") => DataPath \in DOMAIN fs /\ ns.df = ReadExcel(fs[DataPath])

\* df after transformation cells, derived tables and an export
C3_Witness ==
    /\ session = "interactive"
    /\ Bound("df") /\ Bound("generation_df") /\ Bound("output_df")
    /\ XlsxPath \in DOMAIN fs
    /\ Completed("rename")
    /\ out.value.data.schema # ns.df.schema

(***************************************************************************)
(* C4.  Independence of the transformation cells.                          *)
(***************************************************************************)
\* the same rows, each as often, in some order
SameRows(a, b) ==
    /\ Len(a) = Len(b)
    /\ \A r \in Range(a) \cup Range(b) :
          Cardinality({i \in DOMAIN a : a[i] = r}) = Cardinality({i \in DOMAIN b : b[i] = r})

SameUpToOrder(v, w) ==
    IF v.kind = "frame" /\ w.kind = "frame"
        THEN v.data.schema = w.data.schema /\ SameRows(v.data.rows, w.data.rows)
        ELSE v = w

DfKept == Bound("df") /\ "df" \in DOMAIN ns' /\ ns'.df = ns.df

\* the same cell run again on an unchanged namespace
Repeated == out'.cell = out.cell /\ out.status = "ok" /\ out'.status = "ok" /\ ns' = ns

WritePosition(path) ==
    CHOOSE k \in 1..3 : ExportWrites(ns.output_df)[k][1] = path

C5_FailureEndsRun ==
    /\ [][out.status # "error"]_vars
    /\ [](out.status = "error" =>
            /\ queue = << >>
            /\ out.cell \in {"load", "hour", "export"}
            /\ ImportNames \subseteq DOMAIN ns
            /\ out.cell = "load" =>
                  /\ ~Bound("df")
                  /\ Bound("data_path")
                  /\ DOMAIN fs \cap OutputPaths = {}
            /\ out.cell = "hour" =>
                  /\ Bound("df") /\ ns.df = ReadExcel(fs[DataPath])
                  /\ DOMAIN ns \cap DerivedNames = {}
                  /\ DOMAIN fs \cap OutputPaths = {}
            /\ out.cell = "export" =>
                  LET w == ExportWrites(ns.output_df)
                      k == WritePosition(out.value.detail)
                  IN  /\ DerivedNames \cup {"df"} \subseteq DOMAIN ns
                      /\ \A i \in 1..(k - 1) : w[i][1] \in DOMAIN fs /\ fs[w[i][1]] = w[i][2]
                      /\ \A i \in (k + 1)..3 : w[i][1] \notin DOMAIN fs)
    /\ []((~Pending("load") /\ (DataPath \notin DOMAIN fs \/ fs[DataPath].format # "xlsx"))
            => out.cell = "load" /\ out.status = "error")
    /\ []((~Pending("hour") /\ Bound("df") /\ ~Temporal(ns.df))
            => out.cell = "hour" /\ out.status = "error")

\* the second write failed: output.csv is there, output.parquet is not
C5_Witness ==
    /\ session = "batch"
    /\ out.cell = "export" /\ out.status = "error"
    /\ out.value.detail = XlsxPath
    /\ CsvPath \in DOMAIN fs /\ fs[CsvPath] = WriteCsv(ns.output_df)
    /\ ParquetPath \notin DOMAIN fs
    /\ queue = << >>

(***************************************************************************)
(* C6.  The rolling-mean cell shows one row per distinct Date of df, in    *)
(* ascending Date order; the value at position i (counted from 0) is null  *)
(* when i < 23 and, when i >= 23, the Float64 mean of the per-Date totals  *)
(* at positions i-23..i: their real mean up to the rounding of the         *)
(* additions, subtractions and the division the library's moving window    *)
(* has made so far, and exactly the window's sum divided by 24 when the    *)
(* totals are such that no sum of them is rounded.                         *)
(***************************************************************************)
DatesOf(df) == {r[DateCol] : r \in Range(df.rows)}
TotalOn(df, d) == SumAt(df, OnDate(df, d))

SourcesOf(df) == {r[SourceCol] : r \in Range(df.rows)}

PivotShape(p, df) ==
    /\ Len(p.rows) = Cardinality(DatesOf(df))
    /\ {r[DateCol] : r \in Range(p.rows)} = DatesOf(df)
    /\ Len(p.schema) = 1 + Cardinality(SourcesOf(df))
    /\ Range(Columns(p)) = {DateCol} \cup SourcesOf(df)
    /\ \A r \in Range(p.rows) : \A s \in SourcesOf(df) :
          IsMeanOf(r[s], ReadingsAt(df, AtDateSource(df, r[DateCol], s)))

\* C7 as stated: one row per Date, one column per source, each cell the
\* Float64 mean of the readings of that Date and source, null exactly when df
\* has no row of that Date and source.
C7_AsStated ==
    Completed("pivot") =>
        /\ PivotShape(out.value.data, ns.df)
        /\ \A r \in Range(out.value.data.rows) : \A s \in SourcesOf(ns.df) :
              IsNull(r[s]) <=> AtDateSource(ns.df, r[DateCol], s) = {}

\* C7 with null readings accounted for: a cell is null exactly when df has no
\* row of that Date and source that carries a reading.
C7_Pivot ==
    Completed("pivot") =>
        /\ PivotShape(out.value.data, ns.df)
        /\ \A r \in Range(out.value.data.rows) : \A s \in SourcesOf(ns.df) :
              IsNull(r[s]) <=>
                  AtDateSource(ns.df, r[DateCol], s) \cap WithReading(ns.df) = {}

\* a pivot with a mean of two different readings, a cell that is null because
\* the pair has no row, and a cell that is null although the pair has a row
C7_Witness ==
    /\ Completed("pivot")
    /\ LET p == out.value.data
           df == ns.df
       IN  /\ Len(p.schema) = 3
           /\ \E r \in Range(p.rows) : \E s \in SourcesOf(df) :
                 LET x == ReadingsAt(df, AtDateSource(df, r[DateCol], s))
                 IN  Len(x) = 2 /\ x[1] # x[2] /\ ~IsNull(r[s])
           /\ \E r \in Range(p.rows) : \E s \in SourcesOf(df) :
                 /\ IsNull(r[s])
                 /\ AtDateSource(df, r[DateCol], s) = {}
           /\ \E r \in Range(p.rows) : \E s \in SourcesOf(df) :
                 /\ IsNull(r[s])
                 /\ AtDateSource(df, r[DateCol], s) # {}

(***************************************************************************)
(* C8.  generation_by_hour_source_df (mean over a window, select, unique,  *)
(* sort) has exactly one row per (hour, source) pair of df, carrying the   *)
(* pair's Float64 mean reading: the same rows as group_by(Hour, Primary    *)
(* Source) with mean.  Its rows are in non-decreasing Hour order, and it is one of *)
(* the tables unique() then sort('Hour') can give, the order of the rows    *)
(* that share an Hour being open.                                          *)
(***************************************************************************)
HourSourcePairs(df) == {<<DtHour(r[DateCol]), r[SourceCol]>> : r \in Range(df.rows)}

\* df.with_columns(Hour).group_by('Hour', 'Primary Source').agg(mean), in one of
\* its row orders
GroupedByHourSource(df) ==
    GroupByInOrder(WithHour(df), <<"Hour", SourceCol>>,
                   <<<<"Hourly Generation", "mean", GenCol, "Float64">>>>)

\* the tables unique() then sort('Hour') can give, for every order unique() can
\* return the rows of a short table in
UniqueThenSort(df) ==
    UNION {SortOutcomes(u, <<"Hour">>, FALSE) : u \in UniqueOutcomes(HourSourceMeans(df))}

C8_WindowIsGroupBy ==
    Completed(WindowCell) =>
        LET w == ns[WindowCell]
            df == ns.df
        IN  /\ Columns(w) = <<"Hour", SourceCol, "Hourly Generation">>
            /\ Len(w.rows) = Cardinality(HourSourcePairs(df))
            /\ {<<r["Hour"], r[SourceCol]>> : r \in Range(w.rows)} = HourSourcePairs(df)
            /\ \A r \in Range(w.rows) :
                  IsMeanOf(r["Hourly Generation"],
                           ReadingsAt(df, AtHourSource(df, r["Hour"], r[SourceCol])))
            /\ LET g == GroupedByHourSource(df)
               IN  /\ g.schema = w.schema
                   /\ Len(g.rows) = Len(w.rows)
                   /\ Range(g.rows) = Range(w.rows)
            /\ Len(df.rows) <= MaxPermuted =>
                  /\ w \in UniqueThenSort(df)
                  /\ UniqueThenSort(df) = GenerationByHourSourceDf(df)
            /\ \A i \in 1..(Len(w.rows) - 1) : w.rows[i]["Hour"] <= w.rows[i + 1]["Hour"]

\* rows of different days fall into one (hour, source) pair, and two rows
\* sharing an Hour stand in the reverse of their sources' order
C8_Witness ==
    /\ Completed(WindowCell)
    /\ LET w == ns[WindowCell].rows
       IN  /\ Len(w) < Len(ns.df.rows)
           /\ \E i \in 1..(Len(w) - 1) :
                 /\ w[i]["Hour"] = w[i + 1]["Hour"]
                 /\ StrLess(w[i + 1][SourceCol], w[i][SourceCol])
           /\ \E r \in Range(w) :
                 LET x == ReadingsAt(ns.df, AtHourSource(ns.df, r["Hour"], r[SourceCol]))
                 IN  Len(x) >= 2 /\ x[1] # x[2] /\ ~IsNull(r["Hourly Generation"])

(***************************************************************************)
(* C9.  Order of the rows of output_df, and of the rows of df.             *)
(***************************************************************************)
\* the orders of the rows of df that are tried: all of them for a table of at
\* most MaxPermuted rows, the reverse and the rotation by one for a longer one
Reorderings(rows) ==
    IF Len(rows) <= MaxPermuted THEN Orderings(rows)
    ELSE {rows, Reverse(rows), Tail(rows) \o <<Head(rows)>>}

\* the rows of output_df are in strictly increasing (date, source) order, and
\* no (date, source) key repeats
StrictKeyOrder(t) ==
    /\ \A i \in 1..(Len(t) - 1) :
          \/ t[i]["date"] < t[i + 1]["date"]
          \/ /\ t[i]["date"] = t[i + 1]["date"]
             /\ StrLess(t[i]["source"], t[i + 1]["source"])
    /\ \A i, j \in DOMAIN t :
          (t[i]["date"] = t[j]["date"] /\ t[i]["source"] = t[j]["source"]) => i = j

\* C9 as stated: the rows of output_df are in strictly increasing (date,
\* source) order, and output_df is the same table for every order of the rows
\* of df.
C9_AsStated ==
    Completed("output_df") =>
        /\ StrictKeyOrder(ns.output_df.rows)
        /\ \A p \in Reorderings(ns.df.rows) :
              OutputDf(Frame(ns.df.schema, p)) = {ns.output_df}

\* the rows p list the readings of every (date, source) pair in the order df
\* lists them in
SameOrderInGroups(p, df) ==
    \A k \in DateSourcePairs(df) :
        ReadingsAt(Frame(df.schema, p), OnDateSource(Frame(df.schema, p), k[1], k[2]))
            = ReadingsAt(df, OnDateSource(df, k[1], k[2]))

\* C9 with the rounding of Float64 sums accounted for: the rows of output_df
\* are in strictly increasing (date, source) order; one order of the rows of
\* df gives one output_df, whatever order group_by returns the groups in; and
\* for every other order of the rows of df, output_df has the same keys in the
\* same rows, each generation_gwh differing only by the rounding of the
\* additions, and is the same table when the order keeps the rows of each
\* (date, source) pair in their relative order or when no sum of the readings
\* is rounded.
C9_OrderUpToRounding ==
    Completed("output_df") =>
        LET t == ns.output_df.rows
            df == ns.df
        IN  /\ StrictKeyOrder(t)
            /\ \A p \in Reorderings(df.rows) :
                  LET q == Frame(df.schema, p)
                  IN  /\ Cardinality(OutputDf(q)) = 1
                      /\ Len(p) <= MaxPermuted =>
                            \A g \in GroupByAgg(WithDate(q), DailyKeys, DailySum) :
                                SortOutcomes(SelectOutput(g), <<"date", "source">>, FALSE)
                                    = OutputDf(q)
                      /\ \A o \in OutputDf(q) :
                            /\ o.schema = ns.output_df.schema
                            /\ Len(o.rows) = Len(t)
                            /\ \A k \in DOMAIN t :
                                  LET x == ReadingsAt(df,
                                               OnDateSource(df, t[k]["date"], t[k]["source"]))
                                  IN  /\ o.rows[k]["date"] = t[k]["date"]
                                      /\ o.rows[k]["source"] = t[k]["source"]
                                      /\ Within(o.rows[k]["generation_gwh"],
                                                t[k]["generation_gwh"], Mass(x), 2 * Len(x))
                            /\ (\/ SameOrderInGroups(p, df)
                                \/ OnGrid(ReadingsAt(df, DOMAIN df.rows)))
                                  => o = ns.output_df

\* df lists three readings of one (date, source) pair among the rows of
\* another; another order of its rows leaves the keys of output_df where they
\* are and changes a generation_gwh
C9_Witness ==
    /\ Completed("output_df")
    /\ Len(ns.output_df.rows) >= 2
    /\ Len(ns.df.rows) <= MaxPermuted
    /\ \E p \in Orderings(ns.df.rows) :
          /\ ~SameOrderInGroups(p, ns.df)
          /\ \E o \in OutputDf(Frame(ns.df.schema, p)) :
                /\ o.rows[1]["source"] = ns.output_df.rows[1]["source"]
                /\ o.rows[1]["generation_gwh"] # ns.output_df.rows[1]["generation_gwh"]

(***************************************************************************)
(* C10.  The export aggregation neither drops nor double-counts a row.     *)
(***************************************************************************)
\* every row of df falls into exactly one row of output_df, and output_df has
\* no more rows than df
EachRowOnce(t, d) ==
    /\ \A i \in DOMAIN d :
          Cardinality({k \in DOMAIN t :
              /\ t[k]["date"] = DtDate(d[i][DateCol])
              /\ t[k]["source"] = d[i][SourceCol]}) = 1
    /\ \A k \in DOMAIN t : ~IsNull(t[k]["generation_gwh"])
    /\ Len(t) <= Len(d)

\* the Float64 sum of the generation_gwh column, added in row order
OutputTotal(t) == Total([k \in DOMAIN t |-> t[k]["generation_gwh"]])

\* C10 as stated: every row of df falls into exactly one row of output_df, the
\* generation_gwh of output_df add up to what the readings of df add up to, and
\* output_df has no more rows than df.
C10_AsStated ==
    Completed("output_df") =>
        /\ EachRowOnce(ns.output_df.rows, ns.df.rows)
        /\ OutputTotal(ns.output_df.rows) = SumAt(ns.df, DOMAIN ns.df.rows)

\* C10 with the rounding of Float64 sums accounted for: every row of df falls
\* into exactly one row of output_df, which has no more rows than df; the
\* generation_gwh of output_df add up to the real sum of the readings of df up
\* to the rounding of each addition, and so does the Float64 sum of the
\* readings of df; the two sums are equal when no sum of the readings is
\* rounded.
C10_ConservedUpToRounding ==
    Completed("output_df") =>
        LET t == ns.output_df.rows
            d == ns.df.rows
            x == ReadingsAt(ns.df, DOMAIN d)
        IN  /\ EachRowOnce(t, d)
            /\ Within(OutputTotal(t), RealTotal(x), Mass(x), Len(x) + Len(t))
            /\ Within(SumAt(ns.df, DOMAIN d), RealTotal(x), Mass(x), Len(x))
            /\ OnGrid(x) => OutputTotal(t) = SumAt(ns.df, DOMAIN d)

\* fewer output rows than input rows, and a total of output_df that is not the
\* Float64 sum of the readings of df
C10_Witness ==
    /\ Completed("output_df")
    /\ Len(ns.output_df.rows) < Len(ns.df.rows)
    /\ Len(ns.output_df.rows) >= 2
    /\ OutputTotal(ns.output_df.rows) # SumAt(ns.df, DOMAIN ns.df.rows)

=============================================================================
